---- MODULE Spec2Model ----
(***************************************************************************)
(* Model of the scholarship rule engine of SD23041_LR3.py:                 *)
(*   evaluate_condition  (one condition against a facts mapping),          *)
(*   apply_rules         (priority-ordered first-match rule selection),    *)
(*   the "Evaluate Scholarship Eligibility" button handler.                *)
(*                                                                         *)
(* Text (Python str) is a sequence of one-character strings, so that       *)
(* strip, replace, isdigit, split, float() and int() are computed the way  *)
(* Python computes them.  A number (Python float) is an integer count of   *)
(* 1/Unit, exact for every decimal the model can write.  A Python          *)
(* exception is a value naming the exception type.                         *)
(***************************************************************************)
EXTENDS Integers, Sequences, FiniteSets, TLC

VARIABLES rules, facts, cond, ret, pc, shown

vars == <<rules, facts, cond, ret, pc, shown>>

\* Longest text literal drawn as an input.
MaxLen == 3

RECURSIVE Pow10(_)
Pow10(n) == IF n = 0 THEN 1 ELSE 10 * Pow10(n - 1)

\* A number is an integer multiple of 1/Unit: every decimal with at most
\* MaxLen fractional digits is exact.
Unit == Pow10(MaxLen)

\* The decimal n.d (one fractional digit) as a number.
Dec(n, d) == n * Unit + d * (Unit \div 10)

(***************************************************************************)
(* Python str methods used by the engine.                                  *)
(***************************************************************************)
Whitespace == {" "}

IsDigitChar(c) == c \in {"0", "1", "2", "3", "4", "5", "6", "7", "8", "9"}

DigitVal(c) ==
  CASE c = "0" -> 0 [] c = "1" -> 1 [] c = "2" -> 2 [] c = "3" -> 3
    [] c = "4" -> 4 [] c = "5" -> 5 [] c = "6" -> 6 [] c = "7" -> 7
    [] c = "8" -> 8 [] c = "9" -> 9

RECURSIVE lstrip(_)
lstrip(s) ==
  IF Len(s) > 0 /\ Head(s) \in Whitespace THEN lstrip(Tail(s)) ELSE s

RECURSIVE rstrip(_)
rstrip(s) ==
  IF Len(s) > 0 /\ s[Len(s)] \in Whitespace
    THEN rstrip(SubSeq(s, 1, Len(s) - 1))
    ELSE s

\* str.strip()
strip(s) == rstrip(lstrip(s))

\* c in s
Contains(s, c) == \E i \in 1..Len(s) : s[i] = c

\* s.replace(c, '')
replace(s, c) == SelectSeq(s, LAMBDA x : x # c)

\* str.isdigit(): non-empty and every character a digit
isdigit(s) == Len(s) > 0 /\ \A i \in 1..Len(s) : IsDigitChar(s[i])

\* The integer written by a sequence of digits (0 for the empty sequence).
RECURSIVE DigitsVal(_)
DigitsVal(ds) ==
  IF Len(ds) = 0 THEN 0
  ELSE 10 * DigitsVal(SubSeq(ds, 1, Len(ds) - 1)) + DigitVal(ds[Len(ds)])

\* The value, in 1/Unit, of the fractional digits ds (the digits after a dot).
RECURSIVE FracVal(_, _)
FracVal(ds, place) ==
  IF Len(ds) = 0 THEN 0
  ELSE DigitVal(Head(ds)) * (Unit \div Pow10(place)) + FracVal(Tail(ds), place + 1)

HasSign(s) == Len(s) > 0 /\ Head(s) \in {"+", "-"}

Unsigned(s) == IF HasSign(s) THEN Tail(s) ELSE s

SignOf(s) == IF Len(s) > 0 /\ Head(s) = "-" THEN -1 ELSE 1

DotPos(s) == CHOOSE i \in 1..Len(s) : s[i] = "."

\* float(text): surrounding whitespace is ignored, then an optional sign and
\* digits with at most one dot and at least one digit; anything else raises
\* ValueError.  (Exponents, underscores, inf and nan need characters the
\* inputs of this model do not draw.)
float_of_str(text) ==
  LET s    == strip(text)
      body == Unsigned(s)
      nodot == replace(body, ".")
      wellformed == /\ isdigit(nodot)
                    /\ Len(body) - Len(nodot) <= 1
      ipart == IF Contains(body, ".") THEN SubSeq(body, 1, DotPos(body) - 1) ELSE body
      fpart == IF Contains(body, ".")
                 THEN SubSeq(body, DotPos(body) + 1, Len(body))
                 ELSE <<>>
  IN  IF wellformed
        THEN [kind |-> "float", num |-> SignOf(s) * (DigitsVal(ipart) * Unit + FracVal(fpart, 1)), chars |-> <<>>]
        ELSE [kind |-> "ValueError", num |-> 0, chars |-> <<>>]

(***************************************************************************)
(* JSON values a condition's literal can hold (json.loads, line 87).       *)
(*   num    : an int or float literal within the range of a float          *)
(*   bigint : an int literal beyond the range of a float (json.loads keeps *)
(*            integers exact; float() of one raises OverflowError)         *)
(*   text   : a string literal                                             *)
(*   null   : None                                                         *)
(***************************************************************************)
NumLit(v) == [kind |-> "num", num |-> v, chars |-> <<>>]

BigIntLit == [kind |-> "bigint", num |-> 0, chars |-> <<>>]

TextLit(s) == [kind |-> "text", num |-> 0, chars |-> s]

NullLit == [kind |-> "null", num |-> 0, chars |-> <<>>]

\* str(raw_value) of a value that is neither int nor float
str_of(raw_value) ==
  IF raw_value.kind = "text" THEN raw_value.chars ELSE <<"N", "o", "n", "e">>

\* float(raw_value) of an int or float
float_of_number(raw_value) ==
  IF raw_value.kind = "bigint"
    THEN [kind |-> "OverflowError", num |-> 0, chars |-> <<>>]
    ELSE [kind |-> "float", num |-> raw_value.num, chars |-> <<>>]

\* The test that sends a text literal to float().
LooksNumeric(value_str) ==
  \/ Contains(value_str, ".")
  \/ isdigit(replace(replace(value_str, "-"), "."))

\* The body of the try block: the value the comparison will use, or the
\* exception the conversion raised.
coerce(raw_value) ==
  IF raw_value.kind \in {"num", "bigint"}
    THEN float_of_number(raw_value)
    ELSE LET value_str == strip(str_of(raw_value))
         IN  IF LooksNumeric(value_str)
               THEN float_of_str(value_str)
               ELSE [kind |-> "str", num |-> 0, chars |-> value_str]

Operators == {"==", "!=", ">", ">=", "<", "<="}

PyBool(b) == IF b THEN "True" ELSE "False"

\* val <op> value, val a float: against a str, == is False, != is True and
\* an ordering comparison raises TypeError; an unknown operator falls through
\* to the final return False.
compare(op, val, value) ==
  IF value.kind = "float"
    THEN CASE op = "==" -> PyBool(val = value.num)
           [] op = "!=" -> PyBool(val # value.num)
           [] op = ">"  -> PyBool(val > value.num)
           [] op = ">=" -> PyBool(val >= value.num)
           [] op = "<"  -> PyBool(val < value.num)
           [] op = "<=" -> PyBool(val <= value.num)
           [] OTHER     -> "False"
    ELSE CASE op = "==" -> "False"
           [] op = "!=" -> "True"
           [] op \in {">", ">=", "<", "<="} -> "TypeError"
           [] OTHER     -> "False"

\* The exceptions the try block catches.
Caught == {"ValueError", "TypeError"}

\* evaluate_condition(condition, facts): "True", "False", or the name of the
\* exception that leaves the function.
evaluate_condition(condition, fcts) ==
  IF Len(condition) # 3 THEN "False"
  ELSE LET field     == condition[1]
           op        == condition[2]
           raw_value == condition[3]
       IN  IF field \notin DOMAIN fcts THEN "False"
           ELSE LET val   == fcts[field]
                    value == coerce(raw_value)
                IN  IF value.kind \in Caught THEN "False"
                    ELSE IF value.kind \notin {"float", "str"} THEN value.kind
                    ELSE compare(op, val, value)

Raised(r) == r \notin {"True", "False"}

(***************************************************************************)
(* Inputs of the condition evaluator.                                      *)
(***************************************************************************)
Alphabet == {"1", "5", ".", "-", "+", " ", "a"}

Texts == UNION {[1..k -> Alphabet] : k \in 0..MaxLen}

NumInputs == {Dec(0, 0) - Dec(5, 0), Dec(0, 5), Dec(1, 0), Dec(5, 0), Dec(5, 5)}

Literals == {NumLit(v) : v \in NumInputs} \cup {BigIntLit, NullLit}
              \cup {TextLit(s) : s \in Texts}

CondFields == {"cgpa", "unknown_field"}

CondOps == Operators \cup {"=<", "in"}

CondFacts == {[f \in {} |-> 0]} \cup {[f \in {"cgpa"} |-> v] : v \in NumInputs}

\* Conditions of every arity from 0 to 4.
CondInputs ==
  {<<>>} \cup {<<f>> : f \in CondFields}
    \cup {<<f, op>> : f \in CondFields, op \in CondOps}
    \cup {<<f, op, l>> : f \in CondFields, op \in CondOps, l \in Literals}
    \cup {<<f, op, l, l>> : f \in CondFields, op \in CondOps, l \in {NumLit(Dec(1, 0)), NullLit}}

Pending == [status |-> "pending", value |-> "None", exc |-> "None"]

Returned(v) == [status |-> "returned", value |-> v, exc |-> "None"]

RaisedWith(e) == [status |-> "raised", value |-> "None", exc |-> e]

\* A call of evaluate_condition(cond, facts) and what the caller gets back.
CallEvaluateCondition ==
  /\ pc = "call"
  /\ LET r == evaluate_condition(cond, facts)
     IN  ret' = IF Raised(r) THEN RaisedWith(r) ELSE Returned(r)
  /\ pc' = "done"
  /\ UNCHANGED <<rules, facts, cond, shown>>

InitCond ==
  /\ cond \in CondInputs
  /\ facts \in CondFacts
  /\ rules = <<>>
  /\ ret = Pending
  /\ pc = "call"
  /\ shown = <<>>

NextCond == CallEvaluateCondition

SpecCond == InitCond /\ [][NextCond]_vars

\* What came back from the call, read field by field.
ReturnedIs(v) == ret.status = "returned" /\ ret.value = v

RaisedIs(e) == ret.status = "raised" /\ ret.exc = e

(***************************************************************************)
(* Claims about evaluate_condition, checked under SpecCond.                *)
(***************************************************************************)

\* Text that is a decimal number as the specification words it: optional
\* surrounding whitespace, an optional sign, then digits with at most one dot
\* and at least one digit.
IsDecimalText(t) ==
  LET body  == Unsigned(strip(t))
      nodot == replace(body, ".")
  IN  isdigit(nodot) /\ Len(body) - Len(nodot) <= 1

\* The number such a text writes.
DecimalValue(t) == float_of_str(t).num

\* The call that was made had a well-shaped condition on a field the facts hold.
EvaluatedOnKnownField ==
  /\ pc = "done"
  /\ Len(cond) = 3
  /\ cond[1] \in DOMAIN facts

\* C3: for each of the six operators and facts holding the field, a condition
\* whose literal is text that is not a decimal number returns false and does
\* not raise.
C3_NonNumericTextIsFalse ==
  ( /\ EvaluatedOnKnownField
    /\ cond[2] \in Operators
    /\ cond[3].kind = "text"
    /\ ~IsDecimalText(cond[3].chars) )
  => ReturnedIs("False")

\* What the code does there instead (holds under SpecCond): text with a dot,
\* or that is digits once '-' is removed, fails in float() and gives False;
\* any other text is kept as a str, so == gives False, != gives True and an
\* ordering operator raises TypeError.
C3_WhatTheCodeDoes ==
  ( /\ EvaluatedOnKnownField
    /\ cond[2] \in Operators
    /\ cond[3].kind = "text"
    /\ ~IsDecimalText(cond[3].chars) )
  => IF LooksNumeric(strip(cond[3].chars))
       THEN ReturnedIs("False")
       ELSE CASE cond[2] = "==" -> ReturnedIs("False")
              [] cond[2] = "!=" -> ReturnedIs("True")
              [] OTHER -> RaisedIs("TypeError")

\* C4: a condition that has not exactly three elements, or whose field is
\* absent from the facts, or whose operator is not one of the six, returns
\* false and does not raise.
C4_CannotEvaluateIsFalse ==
  ( /\ pc = "done"
    /\ \/ Len(cond) # 3
       \/ cond[1] \notin DOMAIN facts
       \/ cond[2] \notin Operators )
  => ReturnedIs("False")

\* The part of C4 that holds of the code (under SpecCond): wrong arity and
\* absent field always give False; an unknown operator gives False unless the
\* literal is an integer too large for a float.
C4_ExceptHugeInteger ==
  ( /\ pc = "done"
    /\ \/ Len(cond) # 3
       \/ cond[1] \notin DOMAIN facts
       \/ cond[2] \notin Operators )
  => IF Len(cond) = 3 /\ cond[1] \in DOMAIN facts /\ cond[3].kind = "bigint"
       THEN RaisedIs("OverflowError")
       ELSE ReturnedIs("False")

\* C7: a text literal that is a decimal number gives, for every field value
\* and each of the six operators, the result the numeric literal of the same
\* value gives.
C7_NumericTextLikeNumber ==
  ( /\ EvaluatedOnKnownField
    /\ cond[2] \in Operators
    /\ cond[3].kind = "text"
    /\ IsDecimalText(cond[3].chars) )
  => ReturnedIs(evaluate_condition(
               <<cond[1], cond[2], NumLit(DecimalValue(cond[3].chars))>>, facts))

\* The part of C7 that holds of the code (under SpecCond): the texts that are
\* not coerced are exactly the decimal texts that carry a '+' and no dot.
C7_ExceptPlusSignedInteger ==
  ( /\ EvaluatedOnKnownField
    /\ cond[2] \in Operators
    /\ cond[3].kind = "text"
    /\ IsDecimalText(cond[3].chars)
    /\ (Contains(cond[3].chars, ".") \/ ~Contains(cond[3].chars, "+")) )
  => ReturnedIs(evaluate_condition(
               <<cond[1], cond[2], NumLit(DecimalValue(cond[3].chars))>>, facts))

(***************************************************************************)
(* apply_rules.  A rule is a record (a JSON object): name and action are   *)
(* always present, priority and conditions may be absent.                  *)
(***************************************************************************)

\* rule.get("priority", 0)
Priority(rule) == IF "priority" \in DOMAIN rule THEN rule.priority ELSE 0

\* rule.get("conditions", [])
Conditions(rule) == IF "conditions" \in DOMAIN rule THEN rule.conditions ELSE <<>>

MaxPriority(rs) ==
  CHOOSE m \in {Priority(rs[i]) : i \in 1..Len(rs)} :
    \A i \in 1..Len(rs) : Priority(rs[i]) <= m

\* The order without reverse=True: ascending priority, stable.
RECURSIVE sorted_ascending(_)
sorted_ascending(rs) ==
  IF Len(rs) = 0 THEN <<>>
  ELSE LET m == MaxPriority(rs)
       IN  sorted_ascending(SelectSeq(rs, LAMBDA r : Priority(r) # m))
             \o SelectSeq(rs, LAMBDA r : Priority(r) = m)

\* sorted(rules, key=lambda x: x.get("priority", 0), reverse=True):
\* descending priority; Python's sort is stable and reverse=True keeps the
\* input order of equal keys.
RECURSIVE sorted_desc(_)
sorted_desc(rs) ==
  IF Len(rs) = 0 THEN <<>>
  ELSE LET m == MaxPriority(rs)
       IN  SelectSeq(rs, LAMBDA r : Priority(r) = m)
             \o sorted_desc(SelectSeq(rs, LAMBDA r : Priority(r) # m))

\* all(evaluate_condition(cond, facts) for cond in conditions): the generator
\* is consumed in order and stops at the first False; an exception leaves it.
RECURSIVE all_conditions(_, _)
all_conditions(conditions, fcts) ==
  IF Len(conditions) = 0 THEN "True"
  ELSE LET r == evaluate_condition(Head(conditions), fcts)
       IN  IF r = "True" THEN all_conditions(Tail(conditions), fcts) ELSE r

\* The pair (None, None)
NoMatch ==
  [none |-> TRUE, action |-> [decision |-> "", reason |-> ""], name |-> <<>>]

\* The pair (rule.get("action"), rule.get("name"))
Match(rule) == [none |-> FALSE, action |-> rule.action, name |-> rule.name]

\* The for loop over sorted_rules and the final return.
RECURSIVE first_match(_, _)
first_match(sorted_rules, fcts) ==
  IF Len(sorted_rules) = 0 THEN Returned(NoMatch)
  ELSE LET rule == Head(sorted_rules)
           m    == all_conditions(Conditions(rule), fcts)
       IN  CASE m = "True"  -> Returned(Match(rule))
             [] m = "False" -> first_match(Tail(sorted_rules), fcts)
             [] OTHER       -> RaisedWith(m)

apply_rules(rs, fcts) == first_match(sorted_desc(rs), fcts)

\* list.sort() in place of sorted(): the caller's list is reordered.
rules_after_sort_in_place(rs) == sorted_desc(rs)

\* The caller's list after apply_rules: sorted() builds a new list and the
\* loop only reads, so the argument keeps its rules and their order.
rules_after_apply(rs) == rs

(***************************************************************************)
(* Inputs of the rule selector: rulesets of up to MaxRules rules.  The     *)
(* rule at position i is named "R<i>" and decides "D<i>", so that the pair *)
(* returned tells which rule was selected.                                 *)
(***************************************************************************)
MaxRules == 3

\* The digit that writes i, for i in 0..9.
DigitChar(i) == CHOOSE c \in {"0", "1", "2", "3", "4", "5", "6", "7", "8", "9"} : DigitVal(c) = i

PosDecision(i) == CASE i = 1 -> "D1" [] i = 2 -> "D2" [] i = 3 -> "D3" [] i = 4 -> "D4"
                    [] OTHER -> "D5"

\* cgpa >= 3.0
CondHigh == <<"cgpa", ">=", NumLit(Dec(3, 0))>>

\* cgpa < 2.5
CondLow == <<"cgpa", "<", NumLit(Dec(2, 5))>>

\* cgpa > "abc"
CondGarbled == <<"cgpa", ">", TextLit(<<"a", "b", "c">>)>>

ConditionLists ==
  { <<>>, <<CondHigh>>, <<CondLow>>, <<CondGarbled>>,
    <<CondLow, CondGarbled>>, <<CondHigh, CondGarbled>>, <<CondHigh, CondLow>> }

PriorityInputs == {50, 100}

\* The bodies a rule can have: with or without priority, with or without
\* conditions.
RuleBodies ==
  {[priority |-> p, conditions |-> cs] : p \in PriorityInputs, cs \in ConditionLists}
    \cup {[conditions |-> cs] : cs \in ConditionLists}
    \cup {[priority |-> p] : p \in PriorityInputs}

RuleAt(i, body) ==
  [k \in DOMAIN body \cup {"name", "action"} |->
     CASE k = "name"   -> <<"R", DigitChar(i)>>
       [] k = "action" -> [decision |-> PosDecision(i), reason |-> "because"]
       [] OTHER        -> body[k]]

\* The ruleset whose rule at position i has the body bodies[i].
RuleSetOf(bodies) == [i \in 1..Len(bodies) |-> RuleAt(i, bodies[i])]

RuleFacts == {[f \in {} |-> 0], [f \in {"cgpa"} |-> Dec(3, 5)]}

\* A call of apply_rules(rules, facts) and what the caller gets back.
CallApplyRules ==
  /\ pc = "call"
  /\ ret' = apply_rules(rules, facts)
  /\ rules' = rules_after_apply(rules)
  /\ pc' = "done"
  /\ UNCHANGED <<facts, cond, shown>>

InitRules ==
  /\ \E n \in 0..MaxRules : \E bodies \in [1..n -> RuleBodies] : rules = RuleSetOf(bodies)
  /\ facts \in RuleFacts
  /\ cond = <<>>
  /\ ret = Pending
  /\ pc = "call"
  /\ shown = <<>>

NextRules == CallApplyRules

SpecRules == InitRules /\ [][NextRules]_vars

(***************************************************************************)
(* Claims about apply_rules, checked under SpecRules.                      *)
(***************************************************************************)

\* Every condition of the rule is true of the facts.
AllTrue(rule, fcts) ==
  \A k \in 1..Len(Conditions(rule)) :
    evaluate_condition(Conditions(rule)[k], fcts) = "True"

\* The positions of the rules whose conditions all hold.
MatchingIdx == {i \in 1..Len(rules) : AllTrue(rules[i], facts)}

\* Rule j sorts before rule i: higher priority, or equal priority and earlier.
SortsBefore(j, i) ==
  \/ Priority(rules[j]) > Priority(rules[i])
  \/ Priority(rules[j]) = Priority(rules[i]) /\ j < i

\* The matching rule that sorts before every other matching rule.
FirstMatching == CHOOSE i \in MatchingIdx : \A j \in MatchingIdx : ~SortsBefore(j, i)

\* C1: if some rule has all its conditions true, apply_rules returns the
\* action and name of a matching rule of maximal priority among the matching
\* rules.
C1_HighestPriorityMatchWins ==
  (pc = "done" /\ MatchingIdx # {})
  => \E i \in MatchingIdx :
       /\ \A j \in MatchingIdx : Priority(rules[j]) <= Priority(rules[i])
       /\ ReturnedIs(Match(rules[i]))

\* C2: among the matching rules of the highest matching priority, the one
\* earliest in the input list is returned.
C2_TieBrokenByListOrder ==
  (pc = "done" /\ MatchingIdx # {})
  => ReturnedIs(Match(rules[FirstMatching]))

\* C5: when no rule has all its conditions true, apply_rules returns
\* (None, None) without raising; it never returns the action of a rule that
\* has a false condition.
C5_NoMatchIsExplicit ==
  pc = "done"
  => /\ MatchingIdx = {} => ReturnedIs(NoMatch)
     /\ (ret.status = "returned" /\ ~ret.value.none)
          => \E i \in MatchingIdx : ret.value = Match(rules[i])

\* C6: with a rule whose condition list is empty or absent in the ruleset,
\* apply_rules never returns no-match, and returns that rule's action unless
\* a rule that sorts before it also matches.
C6_EmptyConditionsAlwaysMatch ==
  pc = "done"
  => \A i \in 1..Len(rules) :
       Len(Conditions(rules[i])) = 0
       => /\ ~ReturnedIs(NoMatch)
          /\ \/ \E j \in MatchingIdx : SortsBefore(j, i)
             \/ ReturnedIs(Match(rules[i]))

\* What the code does (holds under SpecRules): a call that returns gives the
\* first matching rule in sort order, or (None, None) when none matches; a
\* call raises exactly when a rule sorting before every matching rule has a
\* condition that raises after its earlier conditions were true.
RaisesFirst(i) == Raised(all_conditions(Conditions(rules[i]), facts))

SelectionUnlessException ==
  pc = "done"
  => IF \E i \in 1..Len(rules) :
          RaisesFirst(i) /\ \A j \in MatchingIdx : SortsBefore(i, j)
       THEN RaisedIs("TypeError")
       ELSE IF MatchingIdx = {} THEN ReturnedIs(NoMatch)
       ELSE ReturnedIs(Match(rules[FirstMatching]))

\* C8: a call leaves the caller's rules list (same rules, same order, same
\* contents) and facts mapping (same keys and values) as they were, whether
\* or not a rule matched.
C8_InputsUnchanged == [][rules' = rules /\ facts' = facts]_vars

\* A call has returned on a rules list that is not in priority order.
C8_Witness ==
  /\ pc = "done"
  /\ ret.status = "returned"
  /\ ~ret.value.none
  /\ sorted_desc(rules) # rules

(***************************************************************************)
(* The page: the rules parsed from the sidebar's JSON, the facts built     *)
(* from the form, and the handler of the Evaluate button.                  *)
(***************************************************************************)

\* "Top merit candidate"
NameTopMerit ==
  <<"T", "o", "p", " ", "m", "e", "r", "i", "t", " ", "c", "a",
    "n", "d", "i", "d", "a", "t", "e">>

\* "Good candidate - partial scholarship"
NameGoodCandidate ==
  <<"G", "o", "o", "d", " ", "c", "a", "n", "d", "i", "d", "a",
    "t", "e", " ", "-", " ", "p", "a", "r", "t", "i", "a", "l",
    " ", "s", "c", "h", "o", "l", "a", "r", "s", "h", "i", "p">>

\* "Need-based review"
NameNeedBased ==
  <<"N", "e", "e", "d", "-", "b", "a", "s", "e", "d", " ", "r",
    "e", "v", "i", "e", "w">>

\* "Low CGPA - not eligible"
NameLowCgpa ==
  <<"L", "o", "w", " ", "C", "G", "P", "A", " ", "-", " ", "n",
    "o", "t", " ", "e", "l", "i", "g", "i", "b", "l", "e">>

\* "Serious disciplinary record"
NameDisciplinary ==
  <<"S", "e", "r", "i", "o", "u", "s", " ", "d", "i", "s", "c",
    "i", "p", "l", "i", "n", "a", "r", "y", " ", "r", "e", "c",
    "o", "r", "d">>

\* json.loads(DEFAULT_RULES_JSON): the five default rules in file order.
DEFAULT_RULES ==
  << [ name |-> NameTopMerit, priority |-> 100,
       conditions |-> << <<"cgpa", ">=", NumLit(Dec(3, 7))>>,
                         <<"co_curricular_score", ">=", NumLit(Dec(80, 0))>>,
                         <<"family_income", "<=", NumLit(Dec(8000, 0))>>,
                         <<"disciplinary_actions", "==", NumLit(Dec(0, 0))>> >>,
       action |-> [ decision |-> "AWARD_FULL",
                    reason |-> "Excellent academic & co-curricular performance, with acceptable need" ] ],
     [ name |-> NameGoodCandidate, priority |-> 80,
       conditions |-> << <<"cgpa", ">=", NumLit(Dec(3, 3))>>,
                         <<"co_curricular_score", ">=", NumLit(Dec(60, 0))>>,
                         <<"family_income", "<=", NumLit(Dec(12000, 0))>>,
                         <<"disciplinary_actions", "<=", NumLit(Dec(1, 0))>> >>,
       action |-> [ decision |-> "AWARD_PARTIAL",
                    reason |-> "Good academic & involvement record with moderate need" ] ],
     [ name |-> NameNeedBased, priority |-> 70,
       conditions |-> << <<"cgpa", ">=", NumLit(Dec(2, 5))>>,
                         <<"family_income", "<=", NumLit(Dec(4000, 0))>> >>,
       action |-> [ decision |-> "REVIEW",
                    reason |-> "High need but borderline academic score" ] ],
     [ name |-> NameLowCgpa, priority |-> 95,
       conditions |-> << <<"cgpa", "<", NumLit(Dec(2, 5))>> >>,
       action |-> [ decision |-> "REJECT",
                    reason |-> "CGPA below minimum scholarship requirement" ] ],
     [ name |-> NameDisciplinary, priority |-> 90,
       conditions |-> << <<"disciplinary_actions", ">=", NumLit(Dec(2, 0))>> >>,
       action |-> [ decision |-> "REJECT",
                    reason |-> "Too many disciplinary records" ] ] >>

\* The position of the first whitespace character of t, or Len(t) + 1.
FirstWhitespace(t) ==
  IF \E i \in 1..Len(t) : t[i] \in Whitespace
    THEN CHOOSE i \in 1..Len(t) :
           t[i] \in Whitespace /\ \A j \in 1..(i - 1) : t[j] \notin Whitespace
    ELSE Len(t) + 1

\* str.split(): the words between runs of whitespace
RECURSIVE split(_)
split(s) ==
  LET t == lstrip(s)
  IN  IF Len(t) = 0 THEN <<>>
      ELSE <<SubSeq(t, 1, FirstWhitespace(t) - 1)>>
             \o split(SubSeq(t, FirstWhitespace(t), Len(t)))

\* int(text): an optional sign and at least one digit, else ValueError.
int_of_str(text) ==
  LET s == strip(text)
  IN  IF isdigit(Unsigned(s))
        THEN [kind |-> "int", num |-> SignOf(s) * DigitsVal(Unsigned(s))]
        ELSE [kind |-> "ValueError", num |-> 0]

\* facts.get(cond[0], 'N/A')
actual_of(field, fcts) ==
  IF field \in DOMAIN fcts
    THEN [known |-> TRUE, num |-> fcts[field]]
    ELSE [known |-> FALSE, num |-> 0]

\* The for loop of "Matching Facts": one line per condition; reading cond[2]
\* of a shorter condition raises IndexError.
RECURSIVE write_conditions(_, _, _)
write_conditions(conditions, fcts, written) ==
  IF Len(conditions) = 0 THEN [listed |-> written, exc |-> "None"]
  ELSE IF Len(Head(conditions)) < 3 THEN [listed |-> written, exc |-> "IndexError"]
  ELSE write_conditions(Tail(conditions), fcts,
         Append(written, [cond   |-> SubSeq(Head(conditions), 1, 3),
                          actual |-> actual_of(Head(conditions)[1], fcts)]))

\* rules[int(rule_name.split()[-1]) - 1]["conditions"] and the loop over it:
\* [-1] of an empty split raises IndexError, int() of a word that is no
\* integer raises ValueError, a negative index counts from the end of the
\* list, an index outside it raises IndexError, a rule without conditions
\* raises KeyError.
matching_facts(rs, rule_name, fcts) ==
  LET words == split(rule_name)
  IN  IF Len(words) = 0 THEN [listed |-> <<>>, exc |-> "IndexError"]
      ELSE LET n == int_of_str(words[Len(words)])
               i == n.num - 1
               k == IF i < 0 THEN i + Len(rs) ELSE i
           IN  IF n.kind = "ValueError" THEN [listed |-> <<>>, exc |-> "ValueError"]
               ELSE IF k < 0 \/ k >= Len(rs) THEN [listed |-> <<>>, exc |-> "IndexError"]
               ELSE IF "conditions" \notin DOMAIN rs[k + 1]
                      THEN [listed |-> <<>>, exc |-> "KeyError"]
               ELSE write_conditions(rs[k + 1].conditions, fcts, <<>>)

\* What the page shows below the button.
Blank ==
  [outcome |-> "blank", decision |-> "", rule_name |-> <<>>, reason |-> "",
   listed |-> <<>>, exc |-> "None"]

\* The body of "if st.button(...)": what the handler has written when it
\* ends, and the exception that ended it if one did.  An action is a
\* non-empty JSON object, so "if result" is true exactly when a rule matched;
\* decision holds result["decision"] (the page prints it with '_' replaced
\* by ' ').
handler(rs, fcts) ==
  IF Len(rs) = 0
    THEN [Blank EXCEPT !.outcome = "fix_json"]
    ELSE LET r == apply_rules(rs, fcts)
         IN  IF r.status = "raised"
               THEN [Blank EXCEPT !.outcome = "raised", !.exc = r.exc]
             ELSE IF r.value.none
               THEN [Blank EXCEPT !.outcome = "no_match", !.decision = "REJECT"]
             ELSE LET m == matching_facts(rs, r.value.name, fcts)
                  IN  [outcome   |-> "matched",
                       decision  |-> r.value.action.decision,
                       rule_name |-> r.value.name,
                       reason    |-> r.value.action.reason,
                       listed    |-> m.listed,
                       exc       |-> m.exc]

(***************************************************************************)
(* Inputs of the page.                                                     *)
(***************************************************************************)

\* Largest number of disciplinary actions entered (the widget has no maximum).
MaxDisc == 2

CgpaInputs ==
  {Dec(2, 0), Dec(2, 4), Dec(2, 5), Dec(2, 7), Dec(3, 2), Dec(3, 3), Dec(3, 5),
   Dec(3, 6), Dec(3, 7), Dec(3, 8)}

IncomeInputs ==
  {Dec(4000, 0), Dec(4001, 0), Dec(5000, 0), Dec(8000, 0), Dec(8001, 0),
   Dec(12000, 0), Dec(12001, 0), Dec(20000, 0)}

CoCurricularInputs == {Dec(59, 0), Dec(60, 0), Dec(70, 0), Dec(79, 0), Dec(80, 0)}

CommunityInputs == {Dec(50, 0), Dec(51, 0)}

SemesterInputs == {Dec(5, 0), Dec(6, 0)}

DisciplinaryInputs == {Dec(n, 0) : n \in 0..MaxDisc}

\* The widgets' initial values.
DefaultFacts ==
  [ cgpa |-> Dec(3, 5),
    family_income |-> Dec(5000, 0),
    co_curricular_score |-> Dec(70, 0),
    community_service_hours |-> Dec(50, 0),
    current_semester |-> Dec(5, 0),
    disciplinary_actions |-> Dec(0, 0) ]

\* The default rules renamed "Rule <position + shift>", the naming the
\* "Matching Facts" step reads an index from.
NumberedRules(shift) ==
  [i \in 1..Len(DEFAULT_RULES) |->
     [DEFAULT_RULES[i] EXCEPT !.name = <<"R", "u", "l", "e", " ", DigitChar(i + shift)>>]]

\* What the sidebar's text can parse to: the default rules, the empty list an
\* invalid JSON text is replaced by, and the renamed rules.
SidebarRules ==
  {DEFAULT_RULES, <<>>, NumberedRules(0), NumberedRules(1), NumberedRules(0 - 1)}

\* Any widget change reruns the script with the button not pressed: the
\* output of the last evaluation is gone.
Rerun(newRules, newFacts) ==
  /\ pc = "page"
  /\ rules' = newRules
  /\ facts' = newFacts
  /\ ret' = Pending
  /\ shown' = Blank
  /\ UNCHANGED <<cond, pc>>

EditRules == \E rs \in SidebarRules : Rerun(rs, facts)

SetCgpa == \E v \in CgpaInputs : Rerun(rules, [facts EXCEPT !.cgpa = v])

SetFamilyIncome == \E v \in IncomeInputs : Rerun(rules, [facts EXCEPT !.family_income = v])

SetCoCurricular ==
  \E v \in CoCurricularInputs : Rerun(rules, [facts EXCEPT !.co_curricular_score = v])

SetCommunityService ==
  \E v \in CommunityInputs : Rerun(rules, [facts EXCEPT !.community_service_hours = v])

SetSemester == \E v \in SemesterInputs : Rerun(rules, [facts EXCEPT !.current_semester = v])

SetDisciplinary ==
  \E v \in DisciplinaryInputs : Rerun(rules, [facts EXCEPT !.disciplinary_actions = v])

\* The Evaluate button is pressed: the script reruns and the handler runs.
Evaluate ==
  /\ pc = "page"
  /\ ret' = IF Len(rules) = 0 THEN Pending ELSE apply_rules(rules, facts)
  /\ shown' = handler(rules, facts)
  /\ rules' = rules_after_apply(rules)
  /\ UNCHANGED <<facts, cond, pc>>

Init ==
  /\ rules = DEFAULT_RULES
  /\ facts = DefaultFacts
  /\ cond = <<>>
  /\ ret = Pending
  /\ pc = "page"
  /\ shown = Blank

Next ==
  \/ EditRules
  \/ SetCgpa
  \/ SetFamilyIncome
  \/ SetCoCurricular
  \/ SetCommunityService
  \/ SetSemester
  \/ SetDisciplinary
  \/ Evaluate

Spec == Init /\ [][Next]_vars

(***************************************************************************)
(* Claims about the default rules and the handler, checked under Spec.     *)
(***************************************************************************)

\* The Evaluate handler has called apply_rules on the five default rules.
EvaluatedDefaults == rules = DEFAULT_RULES /\ ret.status # "pending"

\* The decision table of C9, read top to bottom: the name and decision of
\* the rule it gives for the facts f, or no match.
TableRow(f) ==
  CASE /\ f.cgpa >= Dec(3, 7)
       /\ f.co_curricular_score >= Dec(80, 0)
       /\ f.family_income <= Dec(8000, 0)
       /\ f.disciplinary_actions = Dec(0, 0)
         -> [none |-> FALSE, name |-> NameTopMerit, decision |-> "AWARD_FULL"]
    [] f.cgpa < Dec(2, 5)
         -> [none |-> FALSE, name |-> NameLowCgpa, decision |-> "REJECT"]
    [] f.disciplinary_actions >= Dec(2, 0)
         -> [none |-> FALSE, name |-> NameDisciplinary, decision |-> "REJECT"]
    [] /\ f.cgpa >= Dec(3, 3)
       /\ f.co_curricular_score >= Dec(60, 0)
       /\ f.family_income <= Dec(12000, 0)
       /\ f.disciplinary_actions <= Dec(1, 0)
         -> [none |-> FALSE, name |-> NameGoodCandidate, decision |-> "AWARD_PARTIAL"]
    [] f.cgpa >= Dec(2, 5) /\ f.family_income <= Dec(4000, 0)
         -> [none |-> FALSE, name |-> NameNeedBased, decision |-> "REVIEW"]
    [] OTHER
         -> [none |-> TRUE, name |-> <<>>, decision |-> ""]

\* apply_rules returned what the table gives for the facts.
AgreesWithTable ==
  /\ ret.status = "returned"
  /\ [none     |-> ret.value.none,
      name     |-> ret.value.name,
      decision |-> ret.value.action.decision] = TableRow(facts)

\* Every applicant with cgpa below 2.5 gets REJECT with the low-CGPA reason.
LowCgpaRejected ==
  facts.cgpa < Dec(2, 5)
  => /\ ret.status = "returned"
     /\ ret.value.action = [decision |-> "REJECT",
                            reason |-> "CGPA below minimum scholarship requirement"]

\* C9 as stated: agreement with the table, low cgpa rejected, and cgpa 2.7
\* with family_income 20000 gives no match.
C9_AsStated ==
  EvaluatedDefaults
  => /\ AgreesWithTable
     /\ LowCgpaRejected
     /\ (facts.cgpa = Dec(2, 7) /\ facts.family_income = Dec(20000, 0))
          => ReturnedIs(NoMatch)

\* C9 as amended: agreement with the table, low cgpa rejected, and cgpa 2.7
\* with family_income 20000 gives no match when disciplinary_actions is
\* below 2 (with 2 or more the table's third row gives REJECT).
C9_DecisionTable ==
  EvaluatedDefaults
  => /\ AgreesWithTable
     /\ LowCgpaRejected
     /\ ( /\ facts.cgpa = Dec(2, 7)
          /\ facts.family_income = Dec(20000, 0)
          /\ facts.disciplinary_actions < Dec(2, 0) )
          => ReturnedIs(NoMatch)
     /\ ( /\ facts.cgpa = Dec(2, 7)
          /\ facts.family_income = Dec(20000, 0)
          /\ facts.disciplinary_actions >= Dec(2, 0) )
          => ReturnedIs(Match(DEFAULT_RULES[5]))

\* The default rules were evaluated for cgpa 2.7, family_income 20000 and no
\* disciplinary action, and nothing matched.
C9_Witness ==
  /\ EvaluatedDefaults
  /\ facts.cgpa = Dec(2, 7)
  /\ facts.family_income = Dec(20000, 0)
  /\ facts.disciplinary_actions = Dec(0, 0)
  /\ ReturnedIs(NoMatch)
  /\ shown.outcome = "no_match"

\* The conditions the "Matching Facts" step wrote, in order.
ListedConditions == [k \in 1..Len(shown.listed) |-> shown.listed[k].cond]

\* C10: when Evaluate is pressed with a non-empty ruleset and a rule matches,
\* the handler shows the decision, the triggered rule's name and the reason,
\* and completes "Matching Facts" without error, listing the conditions of
\* the rule that was triggered.
C10_MatchingFactsOfTriggeredRule ==
  (Len(rules) > 0 /\ ret.status = "returned" /\ ~ret.value.none)
  => /\ shown.outcome = "matched"
     /\ shown.decision = rules[FirstMatching].action.decision
     /\ shown.rule_name = rules[FirstMatching].name
     /\ shown.reason = rules[FirstMatching].action.reason
     /\ shown.exc = "None"
     /\ ListedConditions = Conditions(rules[FirstMatching])

\* What the code does (holds under Spec): decision, rule name and reason are
\* always shown; with the default names int() of the last word raises
\* ValueError for every one of the five rules and nothing is listed; with
\* rules named "Rule <n>" the conditions listed are those of rule n (counted
\* from the end of the list for n = 0), whichever rule was triggered, and
\* IndexError is raised when n is past the end of the list.
C10_WhatTheCodeDoes ==
  (Len(rules) > 0 /\ ret.status = "returned" /\ ~ret.value.none)
  => /\ shown.outcome = "matched"
     /\ shown.decision = rules[FirstMatching].action.decision
     /\ shown.rule_name = rules[FirstMatching].name
     /\ shown.reason = rules[FirstMatching].action.reason
     /\ rules = DEFAULT_RULES => shown.exc = "ValueError" /\ shown.listed = <<>>
     /\ rules = NumberedRules(0)
          => shown.exc = "None" /\ ListedConditions = Conditions(rules[FirstMatching])
     /\ rules = NumberedRules(1)
          => IF FirstMatching = Len(rules)
               THEN shown.exc = "IndexError" /\ shown.listed = <<>>
               ELSE shown.exc = "None"
                      /\ ListedConditions = Conditions(rules[FirstMatching + 1])
     /\ rules = NumberedRules(0 - 1)
          => shown.exc = "None"
               /\ ListedConditions =
                    Conditions(rules[IF FirstMatching = 1 THEN Len(rules)
                                                          ELSE FirstMatching - 1])

====
